---- MODULE Spec2Model ----
(***************************************************************************)
(* A model of the tincture colour-conversion crate: Hue (src/src/hue.rs),  *)
(* Xyz (src/src/xyz.rs) and the ColorSpace / CoreColorSpace / convert      *)
(* plumbing (src/src/lib.rs).                                              *)
(*                                                                         *)
(* Every number of the crate is an f32.  An f32 is modelled bit-exactly as *)
(* a record [k, s, m, e]: kind ("fin", "inf", "nan"), sign bit, integer     *)
(* significand and exponent of the last place, of value (-1)^s * m * 2^e.   *)
(* A normal number has 2^23 <= m < 2^24; a subnormal has e = -149 and       *)
(* m < 2^23; zero is the subnormal with m = 0.  Arithmetic rounds to        *)
(* nearest, ties to even, as IEEE 754 binary32 does.                        *)
(***************************************************************************)
EXTENDS Integers, Sequences, FiniteSets

Pow2(n) == 2 ^ n

\* Number of significant bits of a natural number below 2^30.
BitLen(n) == CHOOSE k \in 0..30 : n < Pow2(k) /\ (k = 0 \/ n >= Pow2(k - 1))

MinExp == -149
MaxExp == 104
Limb == Pow2(24)
Hidden == Pow2(23)

F32(s, m, e) == [k |-> "fin", s |-> s, m |-> m, e |-> e]
NaN == [k |-> "nan", s |-> 0, m |-> 0, e |-> 0]
Inf(s) == [k |-> "inf", s |-> s, m |-> Hidden, e |-> MaxExp + 1]
Zero(s) == F32(s, 0, MinExp)

\* Round the exact value (-1)^s * (hi * 2^24 + lo) * 2^E to the nearest f32,
\* ties to even (hi < 2^27, lo < 2^24).
RoundPair(s, hi, lo, E) ==
    IF hi = 0 /\ lo = 0 THEN Zero(s)
    ELSE
    LET bl == IF hi > 0 THEN 24 + BitLen(hi) ELSE BitLen(lo)
        q0 == E + bl - 24
        q == IF q0 < MinExp THEN MinExp ELSE q0
        shift == q - E
    IN  IF shift <= 0 THEN F32(s, lo * Pow2(-shift), q)
        ELSE
        LET kept == IF shift <= 24 THEN hi * Pow2(24 - shift) + (lo \div Pow2(shift))
                    ELSE IF shift <= 51 THEN hi \div Pow2(shift - 24)
                    ELSE 0
            \* the discarded part against half a unit in the last place
            cmp == IF shift <= 24
                   THEN LET rem == lo % Pow2(shift)
                            half == Pow2(shift - 1)
                        IN IF rem > half THEN 1 ELSE IF rem = half THEN 0 ELSE -1
                   ELSE IF shift <= 51
                   THEN LET remhi == hi % Pow2(shift - 24)
                            halfhi == Pow2(shift - 25)
                        IN IF remhi > halfhi \/ (remhi = halfhi /\ lo > 0) THEN 1
                           ELSE IF remhi = halfhi /\ lo = 0 THEN 0
                           ELSE -1
                   ELSE -1
            up == cmp > 0 \/ (cmp = 0 /\ kept % 2 = 1)
            rounded == IF up THEN kept + 1 ELSE kept
            m == IF rounded = Limb THEN Hidden ELSE rounded
            e == IF rounded = Limb THEN q + 1 ELSE q
        IN  IF e > MaxExp THEN Inf(s) ELSE F32(s, m, e)

\* The f32 of value (-1)^s * n * 2^e, for a natural n < 2^24.
F32Of(s, n, e) == RoundPair(s, 0, n, e)

\* f32 multiplication: the 48-bit product of the significands, in 12-bit limbs.
F32Mul(a, b) ==
    LET s == (a.s + b.s) % 2
    IN  IF a.k = "nan" \/ b.k = "nan" THEN NaN
        ELSE IF a.k = "inf" \/ b.k = "inf"
        THEN IF a.m = 0 \/ b.m = 0 THEN NaN ELSE Inf(s)
        ELSE
        LET a1 == a.m \div 4096
            a0 == a.m % 4096
            b1 == b.m \div 4096
            b0 == b.m % 4096
            mid == a1 * b0 + a0 * b1
            low == a0 * b0 + (mid % 4096) * 4096
            hi == a1 * b1 + (mid \div 4096) + (low \div Limb)
        IN  RoundPair(s, hi, low % Limb, a.e + b.e)

MagLt(a, b) == a.e < b.e \/ (a.e = b.e /\ a.m < b.m)

\* f32 addition.
F32Add(a, b) ==
    IF a.k = "nan" \/ b.k = "nan" THEN NaN
    ELSE IF a.k = "inf" /\ b.k = "inf" THEN (IF a.s = b.s THEN a ELSE NaN)
    ELSE IF a.k = "inf" THEN a
    ELSE IF b.k = "inf" THEN b
    ELSE
    LET big == IF MagLt(a, b) THEN b ELSE a
        small == IF MagLt(a, b) THEN a ELSE b
        diff == big.e - small.e
    IN  IF small.m = 0 THEN (IF big.m = 0 /\ a.s # b.s THEN Zero(0) ELSE big)
        ELSE IF diff > 26 THEN big
        ELSE
        LET hiA == IF diff <= 24 THEN big.m \div Pow2(24 - diff)
                   ELSE big.m * Pow2(diff - 24)
            loA == IF diff <= 24 THEN (big.m % Pow2(24 - diff)) * Pow2(diff)
                   ELSE 0
        IN  IF big.s = small.s
            THEN LET lo == loA + small.m
                 IN RoundPair(big.s, hiA + (lo \div Limb), lo % Limb, small.e)
            ELSE LET borrow == loA < small.m
                     lo == IF borrow THEN loA + Limb - small.m ELSE loA - small.m
                     hi == IF borrow THEN hiA - 1 ELSE hiA
                 IN IF hi = 0 /\ lo = 0 THEN Zero(0)
                    ELSE RoundPair(big.s, hi, lo, small.e)

F32Neg(a) == IF a.k = "nan" THEN a ELSE [a EXCEPT !.s = 1 - a.s]

F32Sub(a, b) == F32Add(a, F32Neg(b))

F32Abs(a) == IF a.k = "nan" THEN a ELSE [a EXCEPT !.s = 0]

\* The comparisons of f32 (PartialOrd / PartialEq): false on NaN, -0 = +0.
F32Eq(a, b) ==
    /\ a.k # "nan"
    /\ b.k # "nan"
    /\ (a.m = 0 /\ b.m = 0) \/ a = b

F32Lt(a, b) ==
    /\ a.k # "nan"
    /\ b.k # "nan"
    /\ CASE a.s = 0 /\ b.s = 0 -> MagLt(a, b)
         [] a.s = 1 /\ b.s = 1 -> MagLt(b, a)
         [] a.s = 1 /\ b.s = 0 -> ~(a.m = 0 /\ b.m = 0)
         [] OTHER -> FALSE

F32Le(a, b) == F32Lt(a, b) \/ F32Eq(a, b)

F32Gt(a, b) == F32Lt(b, a)


\* A step of j units in the last place away from zero (j > 0) or towards
\* zero (j < 0) from a finite nonzero f32.
RECURSIVE F32Step(_, _)
F32Step(a, j) ==
    IF j = 0 THEN a
    ELSE IF j > 0
    THEN F32Step(IF a.m + 1 = Limb THEN F32(a.s, Hidden, a.e + 1)
                 ELSE F32(a.s, a.m + 1, a.e), j - 1)
    ELSE F32Step(IF a.m = Hidden /\ a.e > MinExp THEN F32(a.s, Limb - 1, a.e - 1)
                 ELSE F32(a.s, a.m - 1, a.e), j + 1)

(***************************************************************************)
(* Bounds of the model.                                                    *)
(***************************************************************************)
\* Whole degrees tried below 0 and above 360.
MaxOver == 2
\* Binary digits after the point of the regular grid of degrees.
GridBits == 1
\* Units in the last place tried on each side of a boundary value.
MaxUlps == 2

(***************************************************************************)
(* Hue (src/src/hue.rs)                                                    *)
(***************************************************************************)
\* f32::to_radians multiplies by the f32 constant PI / 180, f32::to_degrees
\* by the f32 constant 57.29577951308232.
RADS_PER_DEG == F32(0, 9370165, -29)
PIS_IN_180 == F32(0, 15019745, -18)

F32ToRadians(x) == F32Mul(x, RADS_PER_DEG)
F32ToDegrees(x) == F32Mul(x, PIS_IN_180)

Deg0 == Zero(0)
Deg180 == F32Of(0, 180, 0)
Deg360 == F32Of(0, 360, 0)

None == [tag |-> "None"]
Some(h) == [tag |-> "Some", unnormalized_radians |-> h]

\* (0.0..=360.0).contains(&degrees)
RangeInclusiveContains(start, end, item) == F32Le(start, item) /\ F32Le(item, end)

\* from_degrees with the half-open range 0.0..360.0.
from_degrees_half_open(d) ==
    IF ~(F32Le(Deg0, d) /\ F32Lt(d, Deg360)) THEN None
    ELSE LET unnormalized_degrees == IF F32Gt(d, Deg180) THEN F32Sub(d, Deg360) ELSE d
         IN Some(F32ToRadians(unnormalized_degrees))

\* from_degrees without the shift of the upper half circle.
from_degrees_no_shift(d) ==
    IF ~RangeInclusiveContains(Deg0, Deg360, d) THEN None
    ELSE Some(F32ToRadians(d))

from_degrees(d) ==
    IF ~RangeInclusiveContains(Deg0, Deg360, d) THEN None
    ELSE LET unnormalized_degrees == IF F32Gt(d, Deg180) THEN F32Sub(d, Deg360) ELSE d
         IN Some(F32ToRadians(unnormalized_degrees))

\* to_degrees that also wraps a stored angle of zero.
to_degrees_le(self) ==
    LET unnormalized_degrees == F32ToDegrees(self.unnormalized_radians)
    IN IF F32Le(unnormalized_degrees, Deg0)
       THEN F32Add(unnormalized_degrees, Deg360)
       ELSE unnormalized_degrees

\* to_degrees without the wrap of negative angles.
to_degrees_no_wrap(self) == F32ToDegrees(self.unnormalized_radians)

to_degrees(self) ==
    LET unnormalized_degrees == F32ToDegrees(self.unnormalized_radians)
    IN IF F32Lt(unnormalized_degrees, Deg0)
       THEN F32Add(unnormalized_degrees, Deg360)
       ELSE unnormalized_degrees

\* The degrees handed to from_degrees: a regular grid over [-MaxOver,
\* 360 + MaxOver], the neighbours of the seams 0, 180 and 360, numbers of
\* every magnitude from 2^-17 to 2^9 with full significands, the smallest
\* subnormals, the zeros, the infinities and NaN.
GridDegrees ==
    {F32Of(0, n, -GridBits) : n \in 0..((360 + MaxOver) * Pow2(GridBits))}
    \cup {F32Of(1, n, -GridBits) : n \in 1..(MaxOver * Pow2(GridBits))}

SeamDegrees ==
    {F32Step(Deg180, j) : j \in (-MaxUlps)..MaxUlps}
    \cup {F32Step(Deg360, j) : j \in (-MaxUlps)..MaxUlps}
    \cup {F32(s, j, MinExp) : s \in {0, 1}, j \in 0..MaxUlps}

\* 15204355 * 2^-16 = 232.00005 is an angle of the upper half circle that does
\* not come back exactly.
Significands == {Hidden, Hidden + 1, 11184810, 12345679, 15204355, Limb - 1}

WideDegrees == {F32(0, m, e) : m \in Significands, e \in (-40)..(-15)}

DegreeInputs == GridDegrees \cup SeamDegrees \cup WideDegrees \cup {NaN, Inf(0), Inf(1)}

(***************************************************************************)
(* ColorSpace, approx_in_range (src/src/lib.rs) and Xyz (src/src/xyz.rs)   *)
(***************************************************************************)
\* The literal 0.005 of approx_in_range, as an f32.
FUDGE == F32(0, 10737418, -31)

\* Range<f32>::contains: start <= item < end.
RangeContains(start, end, item) == F32Le(start, item) /\ F32Lt(item, end)

\* approx_in_range without the tolerance.
approx_in_range_exact(n, start, end) == RangeContains(start, end, n)

\* approx_in_range with an inclusive upper end.
approx_in_range_inclusive(n, start, end) ==
    RangeInclusiveContains(F32Sub(start, FUDGE), F32Add(end, FUDGE), n)

approx_in_range(n, start, end) ==
    RangeContains(F32Sub(start, FUDGE), F32Add(end, FUDGE), n)

Xyz(x, y, z) == [x |-> x, y |-> y, z |-> z]

\* The literals of xyz.rs as f32: 0.95047003, 1.0, 1.08883 and 0.108883.
X_END == F32(0, 15946241, -24)
Y_END == F32Of(0, 1, 0)
Z_END == F32(0, 9133768, -23)
WHITE_Z == F32(0, 14614029, -27)

BLACK == Xyz(Zero(0), Zero(0), Zero(0))
WHITE == Xyz(X_END, Y_END, WHITE_Z)

\* in_bounds that checks y a second time in place of z.
in_bounds_copy_paste(self) ==
    /\ approx_in_range(self.x, Zero(0), X_END)
    /\ approx_in_range(self.y, Zero(0), Y_END)
    /\ approx_in_range(self.y, Zero(0), Z_END)

in_bounds(self) ==
    /\ approx_in_range(self.x, Zero(0), X_END)
    /\ approx_in_range(self.y, Zero(0), Y_END)
    /\ approx_in_range(self.z, Zero(0), Z_END)

\* The values tried in a channel whose nominal range ends at `end`: the two
\* edges of the tolerance window and their neighbours, the ends of the
\* nominal range, values well inside and far outside (those of the crate's
\* doc-test among them), the infinities and NaN.
ChannelInputs(end) ==
    {F32Step(F32Neg(FUDGE), j) : j \in (-MaxUlps)..MaxUlps}
    \cup {F32Step(F32Add(end, FUDGE), j) : j \in (-MaxUlps)..MaxUlps}
    \cup {Zero(0), Zero(1), end, WHITE_Z,
          F32Of(0, 1, -1), F32Of(0, 1, -2), F32Of(0, 3, -2),
          F32Of(0, 2, 0), F32Of(1, 100, 0), NaN, Inf(0), Inf(1)}

XyzInputs ==
    {Xyz(x, y, z) : x \in ChannelInputs(X_END), y \in ChannelInputs(Y_END),
                    z \in ChannelInputs(Z_END)}

\* A colour is written out in full or named by one of the two constants.
NamedColors ==
    {<<"BLACK", BLACK>>, <<"WHITE", WHITE>>} \cup {<<"literal", c>> : c \in XyzInputs}

(***************************************************************************)
(* CoreColorSpace and convert (src/src/lib.rs)                             *)
(***************************************************************************)
\* The core colour spaces: Xyz, and one more implementor of CoreColorSpace,
\* "Other", whose two methods are arbitrary total functions.
CoreSpaces == {"Xyz", "Other"}

XyzSamples == {BLACK, WHITE, Xyz(F32Of(0, 2, 0), F32Of(1, 100, 0), F32Of(0, 1, -1))}
OtherColors == {[other |-> 1], [other |-> 2]}

Colors(S) == IF S = "Xyz" THEN XyzSamples ELSE OtherColors

Impls == [to_xyz : [OtherColors -> XyzSamples], from_xyz : [XyzSamples -> OtherColors]]

NoImpl == CHOOSE i \in Impls : TRUE

\* <Xyz as CoreColorSpace>::from_xyz and ::to_xyz
XyzFromXyz(xyz) == xyz
\* to_xyz with x and z exchanged.
XyzToXyz_swapped(self) == [x |-> self.z, y |-> self.y, z |-> self.x]
XyzToXyz(self) == self

\* S::to_xyz(c) and S::from_xyz(xyz); each call is appended to the log.
to_xyz(S, c, im, log) ==
    [val |-> IF S = "Xyz" THEN XyzToXyz(c) ELSE im.to_xyz[c],
     log |-> Append(log, <<S, "to_xyz">>)]

from_xyz(S, xyz, im, log) ==
    [val |-> IF S = "Xyz" THEN XyzFromXyz(xyz) ELSE im.from_xyz[xyz],
     log |-> Append(log, <<S, "from_xyz">>)]

\* convert that calls from_xyz of the input space.
convert_wrong_space(I, O, c, im) ==
    LET xyz == to_xyz(I, c, im, <<>>)
    IN from_xyz(I, xyz.val, im, xyz.log)

convert(I, O, c, im) ==
    LET xyz == to_xyz(I, c, im, <<>>)
    IN from_xyz(O, xyz.val, im, xyz.log)

(***************************************************************************)
(* State                                                                   *)
(***************************************************************************)
VARIABLES
    hpc,        \* Hue: "idle", "start", "constructed", "done"
    degrees,    \* the argument of Hue::from_degrees
    hue,        \* its result, an Option<Hue>
    out,        \* the result of Hue::to_degrees
    xpc,        \* Xyz: "idle", "start", "in_bounds", "convert"
    name,       \* how the colour was written: "BLACK", "WHITE" or "literal"
    color,      \* the Xyz colour
    inb,        \* the result of color.in_bounds()
    converted,  \* the result of convert::<Xyz, Xyz>(color)
    cpc,        \* convert: "idle", "start", "returned"
    In,         \* the type parameters of convert
    Out,
    impl,       \* the methods of the core space Other
    arg,        \* the argument of convert
    ret,        \* its result
    calls       \* the trait methods convert called, in order

hueVars == <<hpc, degrees, hue, out>>
xyzVars == <<xpc, name, color, inb, converted>>
convVars == <<cpc, In, Out, impl, arg, ret, calls>>
vars == <<hpc, degrees, hue, out, xpc, name, color, inb, converted,
          cpc, In, Out, impl, arg, ret, calls>>

HueIdle == hpc = "idle" /\ degrees = Deg0 /\ hue = None /\ out = Deg0
XyzIdle ==
    /\ xpc = "idle" /\ name = "BLACK" /\ color = BLACK
    /\ inb = FALSE /\ converted = BLACK
ConvIdle ==
    /\ cpc = "idle" /\ In = "Xyz" /\ Out = "Xyz" /\ impl = NoImpl
    /\ arg = BLACK /\ ret = BLACK /\ calls = <<>>

(***************************************************************************)
(* Hue: from_degrees, then to_degrees on the Hue it returned.              *)
(***************************************************************************)
HueInit ==
    /\ hpc = "start"
    /\ degrees \in DegreeInputs
    /\ hue = None
    /\ out = Deg0
    /\ XyzIdle
    /\ ConvIdle

FromDegrees ==
    /\ hpc = "start"
    /\ hue' = from_degrees(degrees)
    /\ hpc' = "constructed"
    /\ UNCHANGED <<degrees, out>>
    /\ UNCHANGED xyzVars
    /\ UNCHANGED convVars

ToDegrees ==
    /\ hpc = "constructed"
    /\ hue.tag = "Some"
    /\ out' = to_degrees(hue)
    /\ hpc' = "done"
    /\ UNCHANGED <<degrees, hue>>
    /\ UNCHANGED xyzVars
    /\ UNCHANGED convVars

HueNext == FromDegrees \/ ToDegrees

HueSpec == HueInit /\ [][HueNext]_vars

(***************************************************************************)
(* Xyz: in_bounds and convert::<Xyz, Xyz> on a colour.                     *)
(***************************************************************************)
XyzInit ==
    /\ xpc = "start"
    /\ \E nc \in NamedColors : name = nc[1] /\ color = nc[2]
    /\ inb = FALSE
    /\ converted = BLACK
    /\ HueIdle
    /\ ConvIdle

InBounds ==
    /\ xpc = "start"
    /\ inb' = in_bounds(color)
    /\ xpc' = "in_bounds"
    /\ UNCHANGED <<name, color, converted>>
    /\ UNCHANGED hueVars
    /\ UNCHANGED convVars

ConvertXyz ==
    /\ xpc = "start"
    /\ converted' = convert("Xyz", "Xyz", color, impl).val
    /\ xpc' = "convert"
    /\ UNCHANGED <<name, color, inb>>
    /\ UNCHANGED hueVars
    /\ UNCHANGED convVars

XyzNext == InBounds \/ ConvertXyz

XyzSpec == XyzInit /\ [][XyzNext]_vars

(***************************************************************************)
(* convert::<In, Out> over the core spaces.                                *)
(***************************************************************************)
ConvInit ==
    /\ cpc = "start"
    /\ In \in CoreSpaces
    /\ Out \in CoreSpaces
    /\ impl \in Impls
    /\ arg \in Colors(In)
    /\ ret = BLACK
    /\ calls = <<>>
    /\ HueIdle
    /\ XyzIdle

Convert ==
    /\ cpc = "start"
    /\ LET r == convert(In, Out, arg, impl)
       IN ret' = r.val /\ calls' = r.log
    /\ cpc' = "returned"
    /\ UNCHANGED <<In, Out, impl, arg>>
    /\ UNCHANGED hueVars
    /\ UNCHANGED xyzVars

ConvNext == Convert

ConvSpec == ConvInit /\ [][ConvNext]_vars

(***************************************************************************)
(* Properties                                                              *)
(***************************************************************************)
\* 360 as a multiple of 2^-15, the unit in the last place of [256, 512).
Ulps360 == 360 * Pow2(15)

\* d is a number of the closed range [0, 360], read off its representation.
InClosedRange(d) ==
    /\ d.k = "fin"
    /\ \/ d.m = 0
       \/ d.s = 0 /\ (d.e < -15 \/ (d.e = -15 /\ d.m <= Ulps360))

\* d is a number of the half-open range [0, 360).
InHalfOpenRange(d) == InClosedRange(d) /\ ~(d.e = -15 /\ d.m = Ulps360)

\* The float tolerance of the round trips, 1e-4 as an f32.
TOL == F32(0, 13743895, -37)

Within(a, b, tol) == F32Le(F32Abs(F32Sub(a, b)), tol)

\* C1: from_degrees returns None exactly when the degrees are not in the
\* closed range [0, 360] (both ends give Some), and to_degrees, the only
\* other operation of Hue, always returns a number.
FromDegreesNoneIffOutOfRange ==
    /\ hpc \in {"constructed", "done"} =>
         /\ hue = None <=> ~InClosedRange(degrees)
         /\ hue # None => hue.tag = "Some" /\ hue.unnormalized_radians.k = "fin"
    /\ hpc = "done" => out.k = "fin"

\* The upper end 360 is accepted.
FromDegreesAccepts360 ==
    hpc = "constructed" /\ degrees = Deg360 /\ hue.tag = "Some"

\* C2: to_degrees of a Hue made by from_degrees is at least 0 and strictly
\* below 360.
ToDegreesInHalfOpenRange ==
    hpc = "done" => F32Le(Deg0, out) /\ F32Lt(out, Deg360)

\* The largest f32 below 360 comes back below 360.
ToDegreesJustBelow360 ==
    /\ hpc = "done"
    /\ degrees = F32Step(Deg360, -1)
    /\ F32Lt(out, Deg360)

\* C3 as stated: for d in [0, 360) the round trip returns exactly d.
RoundTripExactHalfOpen ==
    hpc = "done" /\ InHalfOpenRange(degrees) => F32Eq(out, degrees)

\* C3 as amended: for d in [0, 360) the round trip returns d within the
\* float tolerance; d > 180 is stored shifted (negative) and shifted back,
\* d <= 180 is stored unshifted (not negative).
RoundTripWithinToleranceHalfOpen ==
    hpc = "done" /\ InHalfOpenRange(degrees) =>
        /\ Within(out, degrees, TOL)
        /\ F32Gt(degrees, Deg180) => F32Lt(hue.unnormalized_radians, Deg0)
        /\ F32Le(degrees, Deg180) => F32Le(Deg0, hue.unnormalized_radians)

\* A shifted angle that comes back within the tolerance but not exactly.
RoundTripShiftedInexact ==
    /\ hpc = "done"
    /\ F32Gt(degrees, Deg180)
    /\ InHalfOpenRange(degrees)
    /\ F32Lt(hue.unnormalized_radians, Deg0)
    /\ ~F32Eq(out, degrees)
    /\ Within(out, degrees, TOL)

\* C4 as stated: for d in the closed range [0, 360], 360 included, the round
\* trip returns d; "returns d" is read as the specification words it, within
\* floating-point precision, so that only the range is in question.
RoundTripClosedRange ==
    hpc = "done" /\ InClosedRange(degrees) => Within(out, degrees, TOL)

\* C4 as amended: the round trip returns d within the float tolerance for d
\* in [0, 360) and returns 0 for d = 360.
RoundTripClosedRangeModulo360 ==
    hpc = "done" /\ InClosedRange(degrees) =>
        IF degrees = Deg360 THEN out = Deg0
        ELSE Within(out, degrees, TOL)

\* 360 has come back as 0.
RoundTrip360GivesZero ==
    hpc = "done" /\ degrees = Deg360 /\ out = Deg0

\* C5: Xyz::BLACK is (0, 0, 0) and Xyz::WHITE is the D65 white (0.95047, 1.0,
\* 1.08883), each channel of WHITE the upper end of the nominal range that
\* in_bounds uses for it.
XyzConstantsAreBlackAndD65 ==
    /\ xpc # "idle" /\ name = "BLACK" => color = Xyz(Zero(0), Zero(0), Zero(0))
    /\ xpc # "idle" /\ name = "WHITE" => color = Xyz(X_END, Y_END, Z_END)

\* C6: Xyz::BLACK and Xyz::WHITE are in bounds; so is the D65 white.
BlackAndWhiteInBounds ==
    xpc = "in_bounds" =>
        /\ name \in {"BLACK", "WHITE"} => inb
        /\ color = Xyz(X_END, Y_END, Z_END) => inb

\* Xyz::WHITE has been found in bounds.
WhiteCheckedInBounds ==
    xpc = "in_bounds" /\ name = "WHITE" /\ color = WHITE /\ inb

\* The nominal ranges widened by 0.005: the f32 nearest to -0.005 and to
\* 0.95547003, 1.005 and 1.09383.
WIDE_START == F32(1, 10737418, -31)
WIDE_X_END == F32(0, 16030127, -24)
WIDE_Y_END == F32(0, 8430551, -23)
WIDE_Z_END == F32(0, 9175711, -23)

StrictlyInside(n, end) == F32Lt(WIDE_START, n) /\ F32Lt(n, end)
Outside(n, end) == F32Lt(n, WIDE_START) \/ F32Gt(n, end)

\* C7: in_bounds is true when all three channels lie strictly inside their
\* nominal range widened by 0.005 at each end, and false when at least one
\* channel lies beyond its widened range, whatever the other two are.
InBoundsWithinTolerance ==
    xpc = "in_bounds" =>
        /\ (/\ StrictlyInside(color.x, WIDE_X_END)
            /\ StrictlyInside(color.y, WIDE_Y_END)
            /\ StrictlyInside(color.z, WIDE_Z_END)) => inb
        /\ (\/ Outside(color.x, WIDE_X_END)
            \/ Outside(color.y, WIDE_Y_END)
            \/ Outside(color.z, WIDE_Z_END)) => ~inb

\* Only z is beyond its widened range, by one unit in the last place, and the
\* colour is out of bounds.
OneChannelOutOfBounds ==
    /\ xpc = "in_bounds"
    /\ StrictlyInside(color.x, WIDE_X_END)
    /\ StrictlyInside(color.y, WIDE_Y_END)
    /\ color.z = F32Step(WIDE_Z_END, 1)
    /\ ~inb

\* C8: convert::<Xyz, Xyz> returns its argument with the three channels
\* unchanged, in bounds or not.
ConvertXyzToXyzIsIdentity ==
    xpc = "convert" => converted = color

\* An out-of-bounds colour has been converted to itself.
ConvertedOutOfBoundsColor ==
    /\ xpc = "convert"
    /\ color = Xyz(F32Of(0, 2, 0), F32Of(1, 100, 0), F32Of(0, 1, -1))
    /\ ~in_bounds(color)
    /\ converted = color

ToXyzOf(S, c) == IF S = "Xyz" THEN c ELSE impl.to_xyz[c]
FromXyzOf(S, x) == IF S = "Xyz" THEN x ELSE impl.from_xyz[x]

\* C9: convert::<In, Out>(c) is Out::from_xyz(In::to_xyz(c)): one call of
\* In::to_xyz, then one call of Out::from_xyz, nothing else, and always a
\* colour of Out; into Xyz it is to_xyz, out of Xyz it is from_xyz.
ConvertComposesToXyzThenFromXyz ==
    cpc = "returned" =>
        /\ ret = FromXyzOf(Out, ToXyzOf(In, arg))
        /\ calls = << <<In, "to_xyz">>, <<Out, "from_xyz">> >>
        /\ ret \in Colors(Out)
        /\ Out = "Xyz" => ret = ToXyzOf(In, arg)
        /\ In = "Xyz" => ret = FromXyzOf(Out, arg)

\* A conversion between two different spaces has returned.
ConvertedAcrossSpaces ==
    /\ cpc = "returned"
    /\ In = "Xyz"
    /\ Out = "Other"
    /\ ret = impl.from_xyz[arg]
    /\ Len(calls) = 2

InWindow(n, start, end) ==
    F32Le(F32Sub(start, FUDGE), n) /\ F32Lt(n, F32Add(end, FUDGE))

\* C10: the tolerance window is half-open: in_bounds accepts exactly the
\* colours whose every channel n has start - 0.005 <= n < end + 0.005; a
\* channel 0.005 below its lower bound is accepted, one 0.005 above its upper
\* bound is rejected.
InBoundsWindowIsHalfOpen ==
    xpc = "in_bounds" =>
        /\ inb <=> /\ InWindow(color.x, Zero(0), X_END)
                   /\ InWindow(color.y, Zero(0), Y_END)
                   /\ InWindow(color.z, Zero(0), Z_END)
        /\ color = Xyz(F32Neg(FUDGE), F32Neg(FUDGE), F32Neg(FUDGE)) => inb
        /\ (\/ color.x = F32Add(X_END, FUDGE)
            \/ color.y = F32Add(Y_END, FUDGE)
            \/ color.z = F32Add(Z_END, FUDGE)) => ~inb

\* Every channel sits on the lower edge of its window and the colour is in
\* bounds.
LowerEdgeAccepted ==
    /\ xpc = "in_bounds"
    /\ color = Xyz(F32Neg(FUDGE), F32Neg(FUDGE), F32Neg(FUDGE))
    /\ inb

====
